---- MODULE Spec2Model ----
(***************************************************************************)
(* puzterm: the solve-state engine of src/main.rs (struct Game, fn init,   *)
(* Game::start, Game::update and the helpers they call), and the decoder   *)
(* of src/puzfile.rs (parse_all) that main feeds it from.                  *)
(*                                                                         *)
(* A char is a one-character string.  Option<T> is a sequence of length    *)
(* at most one: None is <<>>, Some(v) is <<v>>.  A key of                  *)
(* termion::event::Key is a tuple: <<"Char", c>>, <<"Ctrl", c>>, or        *)
(* <<name>> for the keys without a payload.                                *)
(*                                                                         *)
(* One step of the model is one turn of the `while let` loop of            *)
(* Game::update (one item taken from the asynchronous stdin), or the end   *)
(* of a polling cycle: stdin.next() yields None, update returns true and   *)
(* Game::start runs the rest of its loop body.  Terminal output (stdout,   *)
(* the draw_* methods, tick, which only paces redrawing) is not part of    *)
(* the state.                                                              *)
(*                                                                         *)
(* Three specifications: Spec is the key loop of Game::start on three      *)
(* decoded files; DecodeSpec is main from the bytes of a file to the first *)
(* turn of that loop; LoadSpec is init on every small grid.                *)
(***************************************************************************)
EXTENDS Integers, Sequences, FiniteSets, TLC

VARIABLES
    width,            \* Game.width
    height,           \* Game.height
    grid,             \* Game.grid: Vec<Cell>, row-major, here indexed from 1
    cursor_x,         \* Game.cursor_x
    cursor_y,         \* Game.cursor_y
    clues_scroll,     \* Game.clues_scroll
    mode,             \* Game.mode
    last_edit_mode,   \* Game.last_edit_mode
    hint_num_errors,  \* Game.hint_num_errors
    stopwatch,        \* Game.stopwatch: TRUE while it is running
    pc,               \* "main": before parse_all; "init": before init;
                      \* "update": inside Game::start's loop; "exited": left
                      \* it; "panicked": the process has panicked
    trigger,          \* history: TRUE iff the last key taken from stdin in this
                      \* polling cycle entered a character or was Delete
    data,             \* main's v: the bytes of the file
    puzfile           \* main's p: the decoded PuzFile

vars == <<width, height, grid, cursor_x, cursor_y, clues_scroll, mode,
          last_edit_mode, hint_num_errors, stopwatch, pc, trigger, data,
          puzfile>>

----------------------------------------------------------------------------
(* Option<T> *)

None == <<>>

Some(v) == <<v>>

is_none(o) == o = None

is_some(o) == o # None

(* enum Mode *)
Mode == {"EditAcross", "EditDown", "GameOver", "Select", "Pause"}

(* enum Direction *)
Direction == {"Down", "Left", "Right", "Up"}

----------------------------------------------------------------------------
(* char::to_uppercase and char::is_alphanumeric, on the characters below.  *)

LowerLetters ==
    <<"a", "b", "c", "d", "e", "f", "g", "h", "i", "j", "k", "l", "m",
      "n", "o", "p", "q", "r", "s", "t", "u", "v", "w", "x", "y", "z">>

UpperLetters ==
    <<"A", "B", "C", "D", "E", "F", "G", "H", "I", "J", "K", "L", "M",
      "N", "O", "P", "Q", "R", "S", "T", "U", "V", "W", "X", "Y", "Z">>

Digits == {"0", "1", "2", "3", "4", "5", "6", "7", "8", "9"}

Range(s) == {s[i] : i \in DOMAIN s}

(* to_uppercase, leaving the character as it was typed. *)
to_uppercase_unchanged(c) == <<c>>

(* The uppercase form of c, a sequence of chars: U+00DF (sharp s) has the  *)
(* two-character uppercase form "SS".                                      *)
to_uppercase(c) ==
    IF c \in Range(LowerLetters)
    THEN <<UpperLetters[CHOOSE i \in DOMAIN LowerLetters : LowerLetters[i] = c]>>
    ELSE IF c = "ß" THEN <<"S", "S">>
    ELSE <<c>>

is_alphanumeric(c) ==
    c \in Range(LowerLetters) \cup Range(UpperLetters) \cup Digits \cup {"ß"}

----------------------------------------------------------------------------
(* Methods of Game that only read it.  `self` is a record with the fields  *)
(* width, height and grid.                                                 *)

get(self, x, y) == self.grid[y * self.width + x + 1]

(* has_clue_across without the test of the cell to the right. *)
has_clue_across_alone(self, x, y) ==
    IF is_none(get(self, x, y).truth) THEN FALSE
    ELSE x = 0 \/ is_none(get(self, x - 1, y).truth)

has_clue_across(self, x, y) ==
    IF is_none(get(self, x, y).truth) THEN FALSE
    ELSE /\ (x = 0 \/ is_none(get(self, x - 1, y).truth))
         /\ x < self.width - 1
         /\ is_some(get(self, x + 1, y).truth)

(* has_clue_down without the test of the cell below. *)
has_clue_down_alone(self, x, y) ==
    IF is_none(get(self, x, y).truth) THEN FALSE
    ELSE y = 0 \/ is_none(get(self, x, y - 1).truth)

has_clue_down(self, x, y) ==
    IF is_none(get(self, x, y).truth) THEN FALSE
    ELSE /\ (y = 0 \/ is_none(get(self, x, y - 1).truth))
         /\ y < self.height - 1
         /\ is_some(get(self, x, y + 1).truth)

(* The loop of get_status (lines 216-229) from cell i on, s the counts so   *)
(* far.                                                                    *)
RECURSIVE StatusLoop(_, _, _)
StatusLoop(cells, i, s) ==
    IF i > Len(cells) THEN s
    ELSE
      LET cell == cells[i]
          s1 == IF is_some(cell.truth) THEN [s EXCEPT !.cells = @ + 1] ELSE s
          s2 == IF is_some(cell.guess) THEN [s1 EXCEPT !.guesses = @ + 1] ELSE s1
          s3 == IF /\ is_some(cell.truth)
                   /\ is_some(cell.guess)
                   /\ cell.truth[1] # cell.guess[1]
                THEN [s2 EXCEPT !.errors = @ + 1]
                ELSE s2
      IN StatusLoop(cells, i + 1, s3)

(* get_status, never counting an error. *)
get_status_without_errors(self) ==
    [StatusLoop(self.grid, 1, [cells |-> 0, guesses |-> 0, errors |-> 0])
        EXCEPT !.errors = 0]

get_status(self) ==
    StatusLoop(self.grid, 1, [cells |-> 0, guesses |-> 0, errors |-> 0])

(* is_game_over, without the test for errors: true for a grid with a guess *)
(* in every cell.                                                          *)
is_game_over_when_full(self) ==
    LET status == get_status(self)
    IN  status.cells = status.guesses

is_game_over(self) ==
    LET status == get_status(self)
    IN  status.errors = 0 /\ status.cells = status.guesses

up(self, y) == IF y = 0 THEN self.height - 1 ELSE y - 1

(* down, without the wrap at the last row. *)
down_unwrapped(self, y) == y + 1

down(self, y) == IF y + 1 = self.height THEN 0 ELSE y + 1

(* left, without the wrap. *)
left_clamped(self, x) == IF x = 0 THEN 0 ELSE x - 1

left(self, x) == IF x = 0 THEN self.width - 1 ELSE x - 1

right(self, x) == IF x + 1 = self.width THEN 0 ELSE x + 1

(* edit_left, without the test for a black cell. *)
edit_left_over_blocks(self, x, y) == IF x = 0 THEN x ELSE x - 1

edit_left(self, x, y) ==
    IF x = 0 THEN x
    ELSE IF is_some(get(self, x - 1, y).truth) THEN x - 1 ELSE x

(* edit_right, without the test for a black cell. *)
edit_right_over_blocks(self, x, y) == IF x + 1 = self.width THEN x ELSE x + 1

edit_right(self, x, y) ==
    IF x + 1 = self.width THEN x
    ELSE IF is_some(get(self, x + 1, y).truth) THEN x + 1 ELSE x

edit_up(self, x, y) ==
    IF y = 0 THEN y
    ELSE IF is_some(get(self, x, y - 1).truth) THEN y - 1 ELSE y

(* edit_down, without the test for a black cell. *)
edit_down_over_blocks(self, x, y) == IF y + 1 = self.height THEN y ELSE y + 1

edit_down(self, x, y) ==
    IF y + 1 = self.height THEN y
    ELSE IF is_some(get(self, x, y + 1).truth) THEN y + 1 ELSE y

----------------------------------------------------------------------------
(* puzfile.rs: parse_all, a nom parser over &[u8].  A byte is a number in  *)
(* 0..255 and an input is a sequence of bytes.  A String is a sequence of  *)
(* chars.  The result of a parser is a record: ok is TRUE for              *)
(* Ok((rest, out)); for Err(_) ok is FALSE and err is "Incomplete" or      *)
(* "Error".                                                                *)

Done(out, rest) == [ok |-> TRUE, out |-> out, rest |-> rest, err |-> ""]

Fail(kind) == [ok |-> FALSE, out |-> <<>>, rest |-> <<>>, err |-> kind]

DigitChars == <<"0", "1", "2", "3", "4", "5", "6", "7", "8", "9">>

(* The char with code point cp: the letters, digits and signs that the    *)
(* files below use are written as themselves, any other as "U+" and its    *)
(* code point.                                                             *)
char_from_u32(cp) ==
    CASE cp \in 65..90  -> UpperLetters[cp - 64]
      [] cp \in 97..122 -> LowerLetters[cp - 96]
      [] cp \in 48..57  -> DigitChars[cp - 47]
      [] cp = 32  -> " "
      [] cp = 38  -> "&"
      [] cp = 45  -> "-"
      [] cp = 46  -> "."
      [] cp = 223 -> "ß"
      [] OTHER    -> "U+" \o ToString(cp)

(* ISO_8859_1.decode: every byte is the char with that code point.         *)
ISO_8859_1_decode(s) == [k \in 1..Len(s) |-> char_from_u32(s[k])]

(* The number of bytes of the UTF-8 sequence that the byte b starts, 0 if  *)
(* b starts none.                                                          *)
utf8_char_width(b) ==
    CASE b < 128         -> 1
      [] b \in 194..223  -> 2
      [] b \in 224..239  -> 3
      [] b \in 240..244  -> 4
      [] OTHER           -> 0

(* The second byte b2 may follow the first byte b1 of a sequence of more   *)
(* than one byte (no overlong form, no surrogate, nothing past U+10FFFF).  *)
utf8_second_ok(b1, b2) ==
    CASE b1 = 224 -> b2 \in 160..191
      [] b1 = 237 -> b2 \in 128..159
      [] b1 = 240 -> b2 \in 144..191
      [] b1 = 244 -> b2 \in 128..143
      [] OTHER    -> b2 \in 128..191

(* str::from_utf8 on the bytes s from index k on, acc the chars so far:    *)
(* Some(the chars) for Ok, None for Err(Utf8Error).                        *)
RECURSIVE Utf8Chars(_, _, _)
Utf8Chars(s, k, acc) ==
    IF k > Len(s) THEN Some(acc)
    ELSE
      LET w == utf8_char_width(s[k])
          lead == CASE w = 1 -> s[k]
                    [] w = 2 -> s[k] - 192
                    [] w = 3 -> s[k] - 224
                    [] OTHER -> s[k] - 240
          cp == CASE w = 1 -> lead
                  [] w = 2 -> lead * 64 + (s[k + 1] - 128)
                  [] w = 3 -> lead * 4096 + (s[k + 1] - 128) * 64
                                + (s[k + 2] - 128)
                  [] OTHER -> lead * 262144 + (s[k + 1] - 128) * 4096
                                + (s[k + 2] - 128) * 64 + (s[k + 3] - 128)
      IN  IF \/ w = 0
             \/ k + w - 1 > Len(s)
             \/ w > 1 /\ ~utf8_second_ok(s[k], s[k + 1])
             \/ \E j \in 2..(w - 1) : s[k + j] \notin 128..191
          THEN None
          ELSE Utf8Chars(s, k + w, Append(acc, char_from_u32(cp)))

from_utf8(s) == Utf8Chars(s, 1, <<>>)

(* take!(n) *)
take(i, n) ==
    IF Len(i) < n THEN Fail("Incomplete")
    ELSE Done(SubSeq(i, 1, n), SubSeq(i, n + 1, Len(i)))

(* tag!(t): Incomplete when the input ends inside a possible match.        *)
tag(i, t) ==
    LET n == IF Len(i) < Len(t) THEN Len(i) ELSE Len(t)
    IN  IF SubSeq(i, 1, n) # SubSeq(t, 1, n) THEN Fail("Error")
        ELSE IF Len(i) < Len(t) THEN Fail("Incomplete")
        ELSE Done(t, SubSeq(i, Len(t) + 1, Len(i)))

le_u8(i) ==
    IF Len(i) < 1 THEN Fail("Incomplete")
    ELSE Done(i[1], SubSeq(i, 2, Len(i)))

le_u16(i) ==
    IF Len(i) < 2 THEN Fail("Incomplete")
    ELSE Done(i[1] + 256 * i[2], SubSeq(i, 3, Len(i)))

(* map_res!(take!(n), str::from_utf8) *)
take_utf8(i, n) ==
    LET t == take(i, n)
        s == from_utf8(t.out)
    IN  IF ~t.ok THEN t
        ELSE IF is_none(s) THEN Fail("Error")
        ELSE Done(s[1], t.rest)

(* Lines 38-44: the bytes before the first zero byte, decoded, and the     *)
(* zero byte taken.  take_until! is Incomplete when there is no zero byte. *)
null_string_ascii(i) ==
    IF \A k \in 1..Len(i) : i[k] # 0 THEN Fail("Incomplete")
    ELSE
      LET z == CHOOSE k \in 1..Len(i) :
                   i[k] = 0 /\ \A j \in 1..(k - 1) : i[j] # 0
      IN  Done(ISO_8859_1_decode(SubSeq(i, 1, z - 1)), SubSeq(i, z + 1, Len(i)))

(* The bytes of "ACROSS&DOWN". *)
ACROSS_DOWN == <<65, 67, 82, 79, 83, 83, 38, 68, 79, 87, 78>>

(* checksum without the look at what follows the two bytes. *)
checksum_without_peek(i) == take(i, 2)

(* Line 46: two bytes, with the literal behind them, which is not taken.   *)
checksum(i) ==
    LET c == take(i, 2)
        t == tag(c.rest, ACROSS_DOWN)
    IN  IF ~c.ok THEN c
        ELSE IF ~t.ok THEN t
        ELSE c

(* many_till!(take!(1), peek!(checksum)), res the items so far: at each    *)
(* position the end parser is tried first, then one byte is taken.         *)
RECURSIVE many_till(_, _)
many_till(i, res) ==
    LET e == checksum(i)
        t == take(i, 1)
    IN  IF e.ok THEN Done(<<res, e.out>>, i)
        ELSE IF ~t.ok THEN t
        ELSE many_till(t.rest, Append(res, t.out))

(* opt!: Err(Error) becomes Ok(None), Incomplete goes through.             *)
opt(r, i) ==
    IF r.ok THEN Done(Some(r.out), r.rest)
    ELSE IF r.err = "Error" THEN Done(None, i)
    ELSE r

(* flat_map!(checksum, le_u16) *)
checksum_le_u16(i) ==
    LET c == checksum(i)
        n == le_u16(c.out)
    IN  IF ~c.ok THEN c
        ELSE IF ~n.ok THEN n
        ELSE Done(n.out, c.rest)

(* many_m_n!(n, n, null_string_ascii), res the strings so far.             *)
RECURSIVE many_m_n(_, _, _)
many_m_n(i, n, res) ==
    LET s == null_string_ascii(i)
    IN  IF Len(res) = n THEN Done(res, i)
        ELSE IF ~s.ok THEN s
        ELSE many_m_n(s.rest, n, Append(res, s.out))

(* The fields of do_parse! in lines 50-73, in their order.                 *)
Fields ==
    <<"preamble", "checksum", "magic", "cib_checksum",
      "masked_low_checksum_1", "masked_low_checksum_2",
      "masked_high_checksum_1", "masked_high_checksum_2", "version",
      "reserved_1", "scrambled_checksum", "reserved_2", "width", "height",
      "num_clues", "unknown_bitmask", "scrambled", "puzzle", "state",
      "title", "author", "copyright", "clues", "notes">>

(* The parser of the field f on the input i; p holds the fields before f.  *)
Field(f, i, p) ==
    CASE f = "preamble" -> opt(many_till(i, <<>>), i)
      [] f = "checksum" -> checksum_le_u16(i)
      [] f \in {"magic", "title", "author", "copyright", "notes"} ->
             null_string_ascii(i)
      [] f \in {"cib_checksum", "masked_low_checksum_1",
                "masked_low_checksum_2", "masked_high_checksum_1",
                "masked_high_checksum_2", "reserved_1", "scrambled_checksum",
                "num_clues", "unknown_bitmask", "scrambled"} -> le_u16(i)
      [] f = "version" -> take_utf8(i, 4)
      [] f = "reserved_2" -> take(i, 12)
      [] f \in {"width", "height"} -> le_u8(i)
      [] f \in {"puzzle", "state"} -> take_utf8(i, p.width * p.height)
      [] f = "clues" -> many_m_n(i, p.num_clues, <<>>)

(* do_parse! from the k-th field on: the first failure is the result.      *)
RECURSIVE do_parse(_, _, _)
do_parse(k, i, p) ==
    IF k > Len(Fields) THEN Done(p, i)
    ELSE
      LET r == Field(Fields[k], i, p)
      IN  IF ~r.ok THEN r
          ELSE do_parse(k + 1, r.rest, [p EXCEPT ![Fields[k]] = r.out])

(* Lines 48-104.  Lines 75-78: the preamble is the bytes of the items.     *)
parse_all(i) ==
    LET r == do_parse(1, i, [f \in Range(Fields) |-> <<>>])
        items == IF is_some(r.out.preamble) THEN r.out.preamble[1][1] ELSE <<>>
    IN  IF ~r.ok THEN r
        ELSE Done([r.out EXCEPT
                     !.preamble = [k \in 1..Len(items) |-> items[k][1]]],
                  r.rest)

----------------------------------------------------------------------------
(* fn init: the grid built from a PuzFile p, then the clue numbering.      *)

(* Lines 80-93: one Cell per character of p.puzzle.                        *)
NewCell(c) ==
    [truth       |-> IF c = "." THEN None ELSE Some(c),
     guess       |-> None,
     clue_number |-> None,
     clue_across |-> None,
     clue_down   |-> None]

(* NumberClues, counting a number for every entry: a cell that starts both *)
(* an across and a down entry uses up two numbers.                         *)
RECURSIVE NumberClues_per_entry(_, _, _, _, _)
NumberClues_per_entry(g, clues, i, clue_number, clue_index) ==
    IF i = g.width * g.height
    THEN [grid |-> g.grid, panicked |-> FALSE, consumed |-> clue_index,
          numbers |-> clue_number - 1]
    ELSE
      LET x == i % g.width
          y == i \div g.width
          across == has_clue_across(g, x, y)
          down_ == has_clue_down(g, x, y)
          index_down == IF across THEN clue_index + 1 ELSE clue_index
          index_next == IF down_ THEN index_down + 1 ELSE index_down
          c == get(g, x, y)
          c1 == IF across
                THEN [c EXCEPT !.clue_across = Some(clues[clue_index + 1])]
                ELSE c
          c2 == IF down_
                THEN [c1 EXCEPT !.clue_down = Some(clues[index_down + 1])]
                ELSE c1
          c3 == IF across \/ down_
                THEN [c2 EXCEPT !.clue_number = Some(clue_number)]
                ELSE c2
      IN IF index_next > Len(clues)
         THEN [grid |-> g.grid, panicked |-> TRUE, consumed |-> clue_index,
               numbers |-> clue_number - 1]
         ELSE NumberClues_per_entry(
                [g EXCEPT !.grid[y * g.width + x + 1] = c3], clues, i + 1,
                clue_number + (index_next - clue_index),
                index_next)

(* NumberClues, taking the down clue of a cell before its across clue.     *)
RECURSIVE NumberClues_down_first(_, _, _, _, _)
NumberClues_down_first(g, clues, i, clue_number, clue_index) ==
    IF i = g.width * g.height
    THEN [grid |-> g.grid, panicked |-> FALSE, consumed |-> clue_index,
          numbers |-> clue_number - 1]
    ELSE
      LET x == i % g.width
          y == i \div g.width
          across == has_clue_across(g, x, y)
          down_ == has_clue_down(g, x, y)
          index_across == IF down_ THEN clue_index + 1 ELSE clue_index
          index_next == IF across THEN index_across + 1 ELSE index_across
          c == get(g, x, y)
          c1 == IF down_
                THEN [c EXCEPT !.clue_down = Some(clues[clue_index + 1])]
                ELSE c
          c2 == IF across
                THEN [c1 EXCEPT !.clue_across = Some(clues[index_across + 1])]
                ELSE c1
          c3 == IF across \/ down_
                THEN [c2 EXCEPT !.clue_number = Some(clue_number)]
                ELSE c2
      IN IF index_next > Len(clues)
         THEN [grid |-> g.grid, panicked |-> TRUE, consumed |-> clue_index,
               numbers |-> clue_number - 1]
         ELSE NumberClues_down_first(
                [g EXCEPT !.grid[y * g.width + x + 1] = c3], clues, i + 1,
                IF across \/ down_ THEN clue_number + 1 ELSE clue_number,
                index_next)

(* Lines 116-144, from cell i (0-based, y outer and x inner) onwards.      *)
(* p.clues[clue_index] panics when clue_index is past the end of p.clues.  *)
(* consumed is the final clue_index, numbers the final clue_number - 1.    *)
RECURSIVE NumberClues(_, _, _, _, _)
NumberClues(g, clues, i, clue_number, clue_index) ==
    IF i = g.width * g.height
    THEN [grid |-> g.grid, panicked |-> FALSE, consumed |-> clue_index,
          numbers |-> clue_number - 1]
    ELSE
      LET x == i % g.width
          y == i \div g.width
          across == has_clue_across(g, x, y)
          down_ == has_clue_down(g, x, y)
          index_down == IF across THEN clue_index + 1 ELSE clue_index
          index_next == IF down_ THEN index_down + 1 ELSE index_down
          c == get(g, x, y)
          c1 == IF across
                THEN [c EXCEPT !.clue_across = Some(clues[clue_index + 1])]
                ELSE c
          c2 == IF down_
                THEN [c1 EXCEPT !.clue_down = Some(clues[index_down + 1])]
                ELSE c1
          c3 == IF across \/ down_
                THEN [c2 EXCEPT !.clue_number = Some(clue_number)]
                ELSE c2
      IN IF index_next > Len(clues)
         THEN [grid |-> g.grid, panicked |-> TRUE, consumed |-> clue_index,
               numbers |-> clue_number - 1]
         ELSE NumberClues(
                [g EXCEPT !.grid[y * g.width + x + 1] = c3], clues, i + 1,
                IF across \/ down_ THEN clue_number + 1 ELSE clue_number,
                index_next)

(* Lines 78-114: the Game before the numbering loop.                       *)
NewGame(p) ==
    [width  |-> p.width,
     height |-> p.height,
     grid   |-> [i \in 1..Len(p.puzzle) |-> NewCell(p.puzzle[i])]]

(* The numbering loop of init.  The loop reads every index below           *)
(* width * height through has_clue_across (line 121, Game::get line 166),  *)
(* so it panics on a grid that has fewer cells.                            *)
NumberGame(p) ==
    LET g == NewGame(p)
    IN  IF Len(g.grid) < g.width * g.height
        THEN [grid |-> g.grid, panicked |-> TRUE, consumed |-> 0,
              numbers |-> 0]
        ELSE NumberClues(g, p.clues, 0, 1, 0)

init(p) ==
    LET numbered == NumberGame(p)
    IN  [width           |-> p.width,
         height          |-> p.height,
         grid            |-> numbered.grid,
         cursor_x        |-> 0,
         cursor_y        |-> 0,
         clues_scroll    |-> 0,
         mode            |-> "Select",
         last_edit_mode  |-> "EditAcross",
         hint_num_errors |-> FALSE,
         stopwatch       |-> FALSE,
         panicked        |-> numbered.panicked]

----------------------------------------------------------------------------
(* Methods of Game that change it (&mut self): each maps the Game before   *)
(* the call to the Game after it.                                          *)

CellIndex(self, x, y) == y * self.width + x + 1

select_move(self, direction) ==
    CASE direction = "Up"    -> [self EXCEPT !.cursor_y = up(self, self.cursor_y)]
      [] direction = "Down"  -> [self EXCEPT !.cursor_y = down(self, self.cursor_y)]
      [] direction = "Left"  -> [self EXCEPT !.cursor_x = left(self, self.cursor_x)]
      [] direction = "Right" -> [self EXCEPT !.cursor_x = right(self, self.cursor_x)]

edit_move(self, direction) ==
    CASE direction = "Up" ->
           [self EXCEPT !.cursor_y = edit_up(self, self.cursor_x, self.cursor_y)]
      [] direction = "Down" ->
           [self EXCEPT !.cursor_y = edit_down(self, self.cursor_x, self.cursor_y)]
      [] direction = "Left" ->
           [self EXCEPT !.cursor_x = edit_left(self, self.cursor_x, self.cursor_y)]
      [] direction = "Right" ->
           [self EXCEPT !.cursor_x = edit_right(self, self.cursor_x, self.cursor_y)]

(* edit_mode, always resuming last_edit_mode. *)
edit_mode_resuming(self) ==
    IF is_none(get(self, self.cursor_x, self.cursor_y).truth) THEN self
    ELSE [self EXCEPT !.mode = self.last_edit_mode]

(* edit_mode, without the early return on a black cell. *)
edit_mode_on_blocks(self) ==
    LET clue_across == get(self, self.cursor_x, self.cursor_y).clue_across
        clue_down == get(self, self.cursor_x, self.cursor_y).clue_down
        m == CASE is_some(clue_across) /\ is_none(clue_down) -> "EditAcross"
               [] is_none(clue_across) /\ is_some(clue_down) -> "EditDown"
               [] OTHER -> self.last_edit_mode
    IN [self EXCEPT !.mode = m, !.last_edit_mode = m]

edit_mode(self) ==
    IF is_none(get(self, self.cursor_x, self.cursor_y).truth) THEN self
    ELSE
      LET clue_across == get(self, self.cursor_x, self.cursor_y).clue_across
          clue_down == get(self, self.cursor_x, self.cursor_y).clue_down
          m == CASE is_some(clue_across) /\ is_none(clue_down) -> "EditAcross"
                 [] is_none(clue_across) /\ is_some(clue_down) -> "EditDown"
                 [] OTHER -> self.last_edit_mode
      IN [self EXCEPT !.mode = m, !.last_edit_mode = m]

(* edit_direction, leaving last_edit_mode as it was. *)
edit_direction_keeping_last(self) ==
    LET m == IF self.mode = "EditDown" THEN "EditAcross" ELSE "EditDown"
    IN  [self EXCEPT !.mode = m]

edit_direction(self) ==
    LET m == IF self.mode = "EditDown" THEN "EditAcross" ELSE "EditDown"
    IN  [self EXCEPT !.mode = m, !.last_edit_mode = m]

(* select_mode, clearing the guess under the cursor on the way out. *)
select_mode_clearing(self) ==
    [self EXCEPT !.mode = "Select",
                 !.grid[CellIndex(self, self.cursor_x, self.cursor_y)].guess = None]

select_mode(self) == [self EXCEPT !.mode = "Select"]

game_over_mode(self) == [self EXCEPT !.mode = "GameOver", !.stopwatch = FALSE]

edit_next(self) ==
    CASE self.mode = "EditAcross" -> edit_move(self, "Right")
      [] self.mode = "EditDown"   -> edit_move(self, "Down")
      [] OTHER                    -> self

(* edit_prev, clearing the guess of the cell it arrives at. *)
edit_prev_clearing(self) ==
    LET moved == CASE self.mode = "EditAcross" -> edit_move(self, "Left")
                   [] self.mode = "EditDown"   -> edit_move(self, "Up")
                   [] OTHER                    -> self
    IN  [moved EXCEPT
           !.grid[CellIndex(moved, moved.cursor_x, moved.cursor_y)].guess = None]

edit_prev(self) ==
    CASE self.mode = "EditAcross" -> edit_move(self, "Left")
      [] self.mode = "EditDown"   -> edit_move(self, "Up")
      [] OTHER                    -> self

(* input, storing the character as typed. *)
input_as_typed(self, c) ==
    LET x == self.cursor_x
        y == self.cursor_y
    IN  edit_next([self EXCEPT !.grid[CellIndex(self, x, y)].guess = Some(c)])

input(self, c) ==
    LET x == self.cursor_x
        y == self.cursor_y
        upper == to_uppercase(c)[1]
    IN  edit_next([self EXCEPT !.grid[CellIndex(self, x, y)].guess = Some(upper)])

(* unguess, stepping back afterwards. *)
unguess_and_step_back(self) ==
    LET x == self.cursor_x
        y == self.cursor_y
    IN  edit_prev([self EXCEPT !.grid[CellIndex(self, x, y)].guess = None])

unguess(self) ==
    LET x == self.cursor_x
        y == self.cursor_y
    IN  [self EXCEPT !.grid[CellIndex(self, x, y)].guess = None]

clues_scroll_up(self) ==
    IF self.clues_scroll <= 5
    THEN [self EXCEPT !.clues_scroll = 0]
    ELSE [self EXCEPT !.clues_scroll = @ - 5]

clues_scroll_down(self) == [self EXCEPT !.clues_scroll = @ + 5]

pause(self) == [self EXCEPT !.mode = "Pause", !.stopwatch = FALSE]

unpause(self) == [self EXCEPT !.mode = "Select", !.stopwatch = TRUE]

toggle_hint_num_errors(self) ==
    [self EXCEPT !.hint_num_errors = ~self.hint_num_errors]

----------------------------------------------------------------------------
(* The inputs: the puzzle files and the keys.                              *)

(* clues_scroll grows without limit in the code (PageDown); the model      *)
(* stops taking PageDown once it would pass MaxScroll.                     *)
MaxScroll == 5

(* Four decoded files.  The first is the fixture of tests::rectangle       *)
(* (puzfile.rs lines 192-195); the second has a cell that starts an across *)
(* entry only and one that starts a down entry only; the third is one      *)
(* column wide and has a lowercase solution letter; the fourth is a single *)
(* cell whose solution is a punctuation mark.                              *)
PuzFiles ==
    { [width |-> 2, height |-> 3,
       puzzle |-> <<"P", "A", "O", ".", "P", ".">>,
       clues |-> <<"1 across", "1 down">>],
      [width |-> 3, height |-> 2,
       puzzle |-> <<"A", "P", ".", ".", "A", ".">>,
       clues |-> <<"1 across", "2 down">>],
      [width |-> 1, height |-> 2,
       puzzle |-> <<"a", "P">>,
       clues |-> <<"1 down">>],
      [width |-> 1, height |-> 1,
       puzzle |-> <<"-">>,
       clues |-> <<>>] }

Char(c) == <<"Char", c>>

Ctrl(c) == <<"Ctrl", c>>

Key(name) == <<name>>

(* Every key Game::update names, and Insert and Char('-') for the rest.    *)
Keys ==
    {Char(c) : c \in {"h", "a", "j", "s", "k", "w", "l", "d", "q", "p", "e",
                      "i", "\n", " ", "A", "o", "ß", "-"}}
    \cup {Ctrl("c")}
    \cup {Key(n) : n \in {"Left", "Down", "Up", "Right", "PageUp", "PageDown",
                          "Delete", "Backspace", "Esc", "Insert"}}

(* The characters typed while editing.                                     *)
EditChars == {"a", "A", "p", "o", "ß", "\n", " ", "-"}

EditKeys == {k \in Keys : k[1] = "Char" => k[2] \in EditChars}

----------------------------------------------------------------------------
(* The state machine.                                                      *)

Self ==
    [width           |-> width,
     height          |-> height,
     grid            |-> grid,
     cursor_x        |-> cursor_x,
     cursor_y        |-> cursor_y,
     clues_scroll    |-> clues_scroll,
     mode            |-> mode,
     last_edit_mode  |-> last_edit_mode,
     hint_num_errors |-> hint_num_errors,
     stopwatch       |-> stopwatch]

(* The Game after a step is g. *)
Becomes(g) ==
    /\ width' = g.width
    /\ height' = g.height
    /\ grid' = g.grid
    /\ cursor_x' = g.cursor_x
    /\ cursor_y' = g.cursor_y
    /\ clues_scroll' = g.clues_scroll
    /\ mode' = g.mode
    /\ last_edit_mode' = g.last_edit_mode
    /\ hint_num_errors' = g.hint_num_errors
    /\ stopwatch' = g.stopwatch

(* main: a decoded file, init (which did not panic), and Game::start up to *)
(* its loop: the stopwatch is started.                                     *)
Init ==
    \E p \in PuzFiles :
        LET g == init(p)
        IN  /\ ~g.panicked
            /\ width = g.width
            /\ height = g.height
            /\ grid = g.grid
            /\ cursor_x = g.cursor_x
            /\ cursor_y = g.cursor_y
            /\ clues_scroll = g.clues_scroll
            /\ mode = g.mode
            /\ last_edit_mode = g.last_edit_mode
            /\ hint_num_errors = g.hint_num_errors
            /\ stopwatch = TRUE
            /\ pc = "update"
            /\ trigger = FALSE
            /\ data = <<>>
            /\ puzfile = p

(* One turn of the `while let` loop of Game::update for the key c, by arm  *)
(* of `match self.mode`: the Game after it, and whether update goes on     *)
(* (FALSE: `return false`).                                                *)
update_pause(self, c) ==
    IF c \in {Char("p"), Char("\n"), Key("Esc")}
    THEN [game |-> unpause(self), continue |-> TRUE]
    ELSE IF c \in {Char("q"), Ctrl("c")}
    THEN [game |-> self, continue |-> FALSE]
    ELSE [game |-> self, continue |-> TRUE]

(* update_select, with 'q' and Ctrl+C ending the session at once instead   *)
(* of pausing.                                                             *)
update_select_quitting(self, c) ==
    IF c \in {Char("q"), Ctrl("c")}
    THEN [game |-> self, continue |-> FALSE]
    ELSE [game |->
            CASE c = Key("PageUp") -> clues_scroll_up(self)
              [] c = Key("PageDown") -> clues_scroll_down(self)
              [] c \in {Char("h"), Char("a"), Key("Left")} -> select_move(self, "Left")
              [] c \in {Char("j"), Char("s"), Key("Down")} -> select_move(self, "Down")
              [] c \in {Char("k"), Char("w"), Key("Up")} -> select_move(self, "Up")
              [] c \in {Char("l"), Char("d"), Key("Right")} -> select_move(self, "Right")
              [] c \in {Char("p"), Key("Esc")} -> pause(self)
              [] c = Char("e") -> toggle_hint_num_errors(self)
              [] c \in {Char("\n"), Char("i")} -> edit_mode(self)
              [] OTHER -> self,
          continue |-> TRUE]

update_select(self, c) ==
    [game |->
       CASE c = Key("PageUp") -> clues_scroll_up(self)
         [] c = Key("PageDown") -> clues_scroll_down(self)
         [] c \in {Char("h"), Char("a"), Key("Left")} -> select_move(self, "Left")
         [] c \in {Char("j"), Char("s"), Key("Down")} -> select_move(self, "Down")
         [] c \in {Char("k"), Char("w"), Key("Up")} -> select_move(self, "Up")
         [] c \in {Char("l"), Char("d"), Key("Right")} -> select_move(self, "Right")
         [] c \in {Char("q"), Char("p"), Ctrl("c"), Key("Esc")} -> pause(self)
         [] c = Char("e") -> toggle_hint_num_errors(self)
         [] c \in {Char("\n"), Char("i")} -> edit_mode(self)
         [] OTHER -> self,
     continue |-> TRUE]

update_edit(self, c) ==
    [game |->
       CASE c = Key("Delete") -> unguess(self)
         [] c = Key("PageUp") -> clues_scroll_up(self)
         [] c = Key("PageDown") -> clues_scroll_down(self)
         [] c = Key("Backspace") -> edit_prev(self)
         [] c = Key("Left") -> edit_move(self, "Left")
         [] c = Key("Down") -> edit_move(self, "Down")
         [] c = Key("Up") -> edit_move(self, "Up")
         [] c = Key("Right") -> edit_move(self, "Right")
         [] c \in {Char("\n"), Key("Esc")} -> select_mode(self)
         [] c = Char(" ") -> edit_direction(self)
         [] c[1] = "Char" /\ is_alphanumeric(c[2]) -> input(self, c[2])
         [] OTHER -> self,
     continue |-> TRUE]

(* update_game_over, with the keys of the Pause arm. *)
update_game_over_as_pause(self, c) == update_pause(self, c)

update_game_over(self, c) == [game |-> self, continue |-> FALSE]

(* `match self.mode` (lines 838-873). *)
update_turn(self, c) ==
    CASE self.mode = "Pause" -> update_pause(self, c)
      [] self.mode = "Select" -> update_select(self, c)
      [] self.mode \in {"EditAcross", "EditDown"} -> update_edit(self, c)
      [] self.mode = "GameOver" -> update_game_over(self, c)

(* The key c takes a character or is Delete: the two inputs that write a   *)
(* guess (the arms of update_edit that call input and unguess).            *)
IsGuessKey(c) == c = Key("Delete") \/ (c[1] = "Char" /\ is_alphanumeric(c[2]))

(* The step for the outcome r of one turn of update's loop: when update    *)
(* returns false, Game::start breaks out of its loop.                      *)
Turn(r) ==
    /\ Becomes(r.game)
    /\ pc' = IF r.continue THEN pc ELSE "exited"
    /\ UNCHANGED <<data, puzfile>>

UpdatePause(c) ==
    /\ pc = "update"
    /\ mode = "Pause"
    /\ trigger' = FALSE
    /\ Turn(update_turn(Self, c))

UpdateSelect(c) ==
    /\ pc = "update"
    /\ mode = "Select"
    /\ c = Key("PageDown") => clues_scroll + 5 <= MaxScroll
    /\ trigger' = FALSE
    /\ Turn(update_turn(Self, c))

UpdateEdit(c) ==
    /\ pc = "update"
    /\ mode \in {"EditAcross", "EditDown"}
    /\ c = Key("PageDown") => clues_scroll + 5 <= MaxScroll
    /\ trigger' = IsGuessKey(c)
    /\ Turn(update_turn(Self, c))

UpdateGameOver(c) ==
    /\ pc = "update"
    /\ mode = "GameOver"
    /\ trigger' = FALSE
    /\ Turn(update_turn(Self, c))

(* Game::update when stdin yields Some(Err(_)): the item is dropped.       *)
UpdateErr ==
    /\ pc = "update"
    /\ trigger' = trigger
    /\ pc' = pc
    /\ Becomes(Self)
    /\ UNCHANGED <<data, puzfile>>

(* stdin yields None: Game::update returns true, and Game::start goes on   *)
(* with lines 814-829 before it calls update again.                        *)
StartLoop ==
    /\ pc = "update"
    /\ trigger' = FALSE
    /\ pc' = pc
    /\ IF mode # "GameOver" /\ is_game_over(Self)
       THEN Becomes(game_over_mode(Self))
       ELSE Becomes(Self)
    /\ UNCHANGED <<data, puzfile>>

Next ==
    \/ \E c \in Keys : UpdatePause(c)
    \/ \E c \in Keys : UpdateSelect(c)
    \/ \E c \in EditKeys : UpdateEdit(c)
    \/ \E c \in Keys : UpdateGameOver(c)
    \/ UpdateErr
    \/ StartLoop

Spec == Init /\ [][Next]_vars

----------------------------------------------------------------------------
(* main and init on the files below.                                       *)

MaxCells == 6

MaxClues == 6

(* The bytes of a file in the layout that lines 50-73 read: the preamble   *)
(* pre, the checksum bytes "12", the literal and its zero byte, the fixed  *)
(* header with the width w, the height h and the clue count n, the two     *)
(* grids, title "T", author "A", an empty copyright, n clues (the j-th is  *)
(* j times "c") and empty notes.                                           *)
RECURSIVE ClueBytes(_)
ClueBytes(n) ==
    IF n = 0 THEN <<>>
    ELSE ClueBytes(n - 1) \o [k \in 1..n |-> 99] \o <<0>>

PuzBytes(pre, w, h, n, puzzle, state) ==
    pre \o <<49, 50>> \o ACROSS_DOWN \o <<0>>
        \o <<51, 0, 52, 0, 53, 0, 54, 0, 55, 0>>
        \o <<49, 46, 51, 0>>
        \o <<0, 0, 0, 0>> \o [k \in 1..12 |-> 0]
        \o <<w, h, n % 256, n \div 256, 49, 0, 0, 0>>
        \o puzzle \o state
        \o <<84, 0, 65, 0, 0>>
        \o ClueBytes(n) \o <<0>>

(* The grids of tests::small ("PUZ", "O.O", "POO") and tests::rectangle    *)
(* ("PA", "O.", "P."), and a grid of two bytes that are the UTF-8 form of  *)
(* the one char U+00DF.                                                    *)
SmallPuzzle == <<80, 85, 90, 79, 46, 79, 80, 79, 79>>

RectanglePuzzle == <<80, 65, 79, 46, 80, 46>>

SharpSPuzzle == <<195, 159>>

(* The state grid of an untouched file: "-" everywhere.                    *)
Blank(n) == [k \in 1..n |-> 45]

(* Width and height of the grids of at most MaxCells cells.                *)
Shapes ==
    {s \in (1..MaxCells) \X (1..MaxCells) : s[1] * s[2] <= MaxCells}

(* Every grid of "." and "A" of those shapes, with a blank state and with  *)
(* a state that repeats the puzzle, and with 0..MaxClues clues.            *)
GridBuffers ==
    UNION {UNION {{PuzBytes(<<>>, s[1], s[2], n, puzzle, state) :
                      n \in 0..MaxClues,
                      state \in {Blank(s[1] * s[2]), puzzle}} :
                  puzzle \in [1..(s[1] * s[2]) -> {46, 65}]} :
           s \in Shapes}

(* The two test grids with the clue counts of the tests, and the grid of   *)
(* U+00DF.                                                                 *)
TestBuffers ==
    {PuzBytes(<<>>, 3, 3, 4, SmallPuzzle, Blank(9)),
     PuzBytes(<<>>, 2, 3, 2, RectanglePuzzle, Blank(6)),
     PuzBytes(<<>>, 2, 1, 0, SharpSPuzzle, Blank(2))}

LoadBuffers == GridBuffers \cup TestBuffers

(* The preambles: none, one byte, the literal with a single byte before    *)
(* it, and a checksum and the literal, which make an earlier header.       *)
Preambles ==
    {<<>>, <<55>>, <<55>> \o ACROSS_DOWN, <<55, 56>> \o ACROSS_DOWN}

(* The test grids and a grid of one byte that is not UTF-8, behind every   *)
(* preamble, cut at every length.                                          *)
DecodeFiles ==
    {PuzBytes(pre, 3, 3, 4, SmallPuzzle, Blank(9)) : pre \in Preambles}
    \cup {PuzBytes(pre, 2, 3, 2, RectanglePuzzle, Blank(6)) : pre \in Preambles}
    \cup {PuzBytes(pre, 2, 1, 0, SharpSPuzzle, Blank(2)) : pre \in Preambles}
    \cup {PuzBytes(pre, 1, 1, 1, <<255>>, Blank(1)) : pre \in Preambles}

DecodeBuffers ==
    UNION {{SubSeq(b, 1, n) : n \in 0..Len(b)} : b \in DecodeFiles}

(* The variables of the Game while there is no Game yet.                   *)
NoGame ==
    [width           |-> 0,
     height          |-> 0,
     grid            |-> <<>>,
     cursor_x        |-> 0,
     cursor_y        |-> 0,
     clues_scroll    |-> 0,
     mode            |-> "Select",
     last_edit_mode  |-> "EditAcross",
     hint_num_errors |-> FALSE,
     stopwatch       |-> FALSE]

IsNoGame ==
    /\ width = NoGame.width
    /\ height = NoGame.height
    /\ grid = NoGame.grid
    /\ cursor_x = NoGame.cursor_x
    /\ cursor_y = NoGame.cursor_y
    /\ clues_scroll = NoGame.clues_scroll
    /\ mode = NoGame.mode
    /\ last_edit_mode = NoGame.last_edit_mode
    /\ hint_num_errors = NoGame.hint_num_errors
    /\ stopwatch = NoGame.stopwatch

(* main, lines 890-892: the file has been read.                            *)
DecodeInit ==
    /\ data \in DecodeBuffers
    /\ puzfile = <<>>
    /\ pc = "main"
    /\ trigger = FALSE
    /\ IsNoGame

(* main, lines 894-895: parse_all is Ok.                                   *)
ParseAll ==
    /\ pc = "main"
    /\ parse_all(data).ok
    /\ puzfile' = parse_all(data).out
    /\ pc' = "init"
    /\ Becomes(Self)
    /\ UNCHANGED <<trigger, data>>

(* main, lines 896-898: parse_all is Err, main panics.                     *)
ParseAllErr ==
    /\ pc = "main"
    /\ ~parse_all(data).ok
    /\ pc' = "panicked"
    /\ Becomes(Self)
    /\ UNCHANGED <<trigger, data, puzfile>>

(* main, line 907: init, up to the loop of Game::start, where the          *)
(* stopwatch has been started.                                             *)
InitGame ==
    /\ pc = "init"
    /\ ~init(puzfile).panicked
    /\ Becomes([init(puzfile) EXCEPT !.stopwatch = TRUE])
    /\ pc' = "update"
    /\ UNCHANGED <<trigger, data, puzfile>>

(* init panics in its numbering loop: there is no Game.                    *)
InitPanic ==
    /\ pc = "init"
    /\ init(puzfile).panicked
    /\ pc' = "panicked"
    /\ Becomes(Self)
    /\ UNCHANGED <<trigger, data, puzfile>>

DecodeNext == ParseAll \/ ParseAllErr \/ InitGame \/ InitPanic

(* main on the files of DecodeBuffers.                                     *)
DecodeSpec == DecodeInit /\ [][DecodeNext]_vars

(* main after parse_all, on the files of LoadBuffers.                      *)
LoadInit ==
    /\ data \in LoadBuffers
    /\ parse_all(data).ok
    /\ puzfile = parse_all(data).out
    /\ pc = "init"
    /\ trigger = FALSE
    /\ IsNoGame

LoadNext == InitGame \/ InitPanic

LoadSpec == LoadInit /\ [][LoadNext]_vars

----------------------------------------------------------------------------
(* Vocabulary of the properties.                                           *)

Cursor == <<cursor_x, cursor_y>>

InGrid(t) == t[1] \in 0..(width - 1) /\ t[2] \in 0..(height - 1)

CellAt(t) == grid[t[2] * width + t[1] + 1]

IsBlock(t) == CellAt(t).truth = None

(* The cell next to t in direction d, on or off the grid. *)
Neighbour(t, d) ==
    CASE d = "Left"  -> <<t[1] - 1, t[2]>>
      [] d = "Right" -> <<t[1] + 1, t[2]>>
      [] d = "Up"    -> <<t[1], t[2] - 1>>
      [] d = "Down"  -> <<t[1], t[2] + 1>>

(* Where the non-wrapping, block-stopping rule takes the cursor from t. *)
EditStep(t, d) ==
    IF InGrid(Neighbour(t, d)) /\ ~IsBlock(Neighbour(t, d))
    THEN Neighbour(t, d)
    ELSE t

(* Every non-block cell has a guess equal to its truth. *)
FullyCorrect ==
    \A i \in DOMAIN grid : grid[i].truth # None => grid[i].guess = grid[i].truth

EditModes == {"EditAcross", "EditDown"}

KeyEvent ==
    \E c \in Keys :
        UpdatePause(c) \/ UpdateSelect(c) \/ UpdateEdit(c) \/ UpdateGameOver(c)

----------------------------------------------------------------------------
(* C1: when a character entry or a Delete leaves the grid fully correct,   *)
(* the mode becomes GameOver on that input: no later key event is          *)
(* processed while the grid is fully correct and the mode is not yet       *)
(* GameOver, however the key events are batched into polling cycles.       *)
C1_GameOverOnTriggeringInput ==
    [][(trigger /\ FullyCorrect /\ mode # "GameOver") => ~KeyEvent]_vars

(* The cursor of the Game g. *)
CursorOf(g) == <<g.cursor_x, g.cursor_y>>

(* C2: in an edit mode an arrow key moves the cursor one cell in its       *)
(* direction iff the target cell is inside the grid and non-block;         *)
(* otherwise the cursor stays: no wrap at an edge, no landing on a block.  *)
C2_EditArrowStopsAtEdgeAndBlock ==
    (pc = "update" /\ mode \in EditModes) =>
        \A d \in Direction :
            LET after == update_edit(Self, Key(d)).game
            IN  /\ CursorOf(after) = EditStep(Cursor, d)
                /\ InGrid(CursorOf(after))
                /\ ~IsBlock(CursorOf(after))

(* Editing on a cell that has a block beside it, the grid edge beside it   *)
(* and a free cell beside it, away from the starting corner.               *)
C2_Witness ==
    /\ mode \in EditModes
    /\ pc = "update"
    /\ Cursor # <<0, 0>>
    /\ \E d \in Direction : ~InGrid(Neighbour(Cursor, d))
    /\ \E d \in Direction :
          InGrid(Neighbour(Cursor, d)) /\ IsBlock(Neighbour(Cursor, d))
    /\ \E d \in Direction : EditStep(Cursor, d) # Cursor

(* The keys that move the cursor in Select, by direction. *)
SelectKeysOf(d) ==
    CASE d = "Left"  -> {Char("h"), Char("a"), Key("Left")}
      [] d = "Down"  -> {Char("j"), Char("s"), Key("Down")}
      [] d = "Up"    -> {Char("k"), Char("w"), Key("Up")}
      [] d = "Right" -> {Char("l"), Char("d"), Key("Right")}

(* The cell one step from t in direction d, modulo the grid size. *)
WrapStep(t, d) ==
    CASE d = "Left"  -> <<(t[1] + width - 1) % width, t[2]>>
      [] d = "Right" -> <<(t[1] + 1) % width, t[2]>>
      [] d = "Up"    -> <<t[1], (t[2] + height - 1) % height>>
      [] d = "Down"  -> <<t[1], (t[2] + 1) % height>>

(* C3: in Select a directional key moves the cursor one cell along its     *)
(* axis modulo the grid size, leaves the other coordinate alone, and does  *)
(* so whether or not the source or the target cell is a block.             *)
C3_SelectMoveWraps ==
    (pc = "update" /\ mode = "Select") =>
        \A d \in Direction : \A c \in SelectKeysOf(d) :
            CursorOf(update_select(Self, c).game) = WrapStep(Cursor, d)

(* In Select on a block cell in the last column and the last row of a grid *)
(* of several rows: the cursor was moved there, Right and Down wrap from   *)
(* it.                                                                     *)
C3_Witness ==
    /\ mode = "Select"
    /\ pc = "update"
    /\ IsBlock(Cursor)
    /\ cursor_x = width - 1
    /\ cursor_y = height - 1
    /\ height > 1

(* The keys that ask for edit mode in Select. *)
EditModeKeys == {Char("\n"), Char("i")}

(* C4: edit mode entered from Select on a non-block cell is EditAcross if  *)
(* the cell has an across clue and no down clue, EditDown if it has a down *)
(* clue and no across clue, and otherwise the former last_edit_mode;       *)
(* last_edit_mode then equals the resulting mode.                          *)
C4_EditModeFromClues ==
    (pc = "update" /\ mode = "Select" /\ ~IsBlock(Cursor)) =>
        \A c \in EditModeKeys :
            LET after == update_select(Self, c).game
                across == CellAt(Cursor).clue_across # None
                down_ == CellAt(Cursor).clue_down # None
            IN  /\ across /\ ~down_ => after.mode = "EditAcross"
                /\ down_ /\ ~across => after.mode = "EditDown"
                /\ across = down_ => after.mode = last_edit_mode
                /\ after.last_edit_mode = after.mode

(* In Select with last_edit_mode = EditDown, on a cell whose only clue is  *)
(* an across clue: entering edit mode there turns last_edit_mode.          *)
C4_Witness ==
    /\ mode = "Select"
    /\ pc = "update"
    /\ last_edit_mode = "EditDown"
    /\ ~IsBlock(Cursor)
    /\ CellAt(Cursor).clue_across # None
    /\ CellAt(Cursor).clue_down = None

(* C5: in Select on a block cell, a request for edit mode changes nothing: *)
(* the mode stays Select, last_edit_mode, the cursor and every guess are   *)
(* unchanged, and the session goes on.                                     *)
C5_EditModeOnBlockIsNoOp ==
    (pc = "update" /\ mode = "Select" /\ IsBlock(Cursor)) =>
        \A c \in EditModeKeys :
            LET r == update_select(Self, c)
            IN  /\ r.continue
                /\ r.game.mode = "Select"
                /\ r.game.last_edit_mode = last_edit_mode
                /\ CursorOf(r.game) = Cursor
                /\ r.game.grid = grid

(* In Select on a block cell of a grid with guesses in it, with            *)
(* last_edit_mode = EditDown.                                              *)
C5_Witness ==
    /\ mode = "Select"
    /\ pc = "update"
    /\ IsBlock(Cursor)
    /\ last_edit_mode = "EditDown"
    /\ \E i \in DOMAIN grid : grid[i].guess # None

(* The alphanumeric characters among the keys. *)
AlnumChars == {k[2] : k \in {c \in Keys : c[1] = "Char" /\ is_alphanumeric(c[2])}}

(* C6: in an edit mode, entering an alphanumeric character c sets the      *)
(* guess of the cell under the cursor to the first character of c's        *)
(* uppercase form, changes no other cell's guess, and then moves the       *)
(* cursor one step in the edit direction (right for EditAcross, down for   *)
(* EditDown) under the non-wrapping, block-stopping rule.                  *)
C6_InputStoresUppercaseAndAdvances ==
    (pc = "update" /\ mode \in EditModes) =>
        \A c \in AlnumChars :
            LET after == update_edit(Self, Char(c)).game
                here == cursor_y * width + cursor_x + 1
                d == IF mode = "EditAcross" THEN "Right" ELSE "Down"
            IN  /\ after.grid[here].guess = <<to_uppercase(c)[1]>>
                /\ \A i \in DOMAIN grid : i # here => after.grid[i] = grid[i]
                /\ after.grid[here].truth = grid[here].truth
                /\ DOMAIN after.grid = DOMAIN grid
                /\ CursorOf(after) = EditStep(Cursor, d)
                /\ after.mode = mode

(* Right after a lowercase letter was entered as the last cell of a down   *)
(* entry: the guess under the cursor is its uppercase form and the cursor  *)
(* has stayed, the cell below being off the grid or a block.               *)
C6_Witness ==
    /\ trigger
    /\ mode = "EditDown"
    /\ cursor_y > 0
    /\ CellAt(Cursor).guess \in {<<"A">>, <<"S">>}
    /\ EditStep(Cursor, "Down") = Cursor
    /\ \E i \in DOMAIN grid : grid[i].truth # None /\ grid[i].guess = None

(* C7: a guess is never stored at a block cell: in every reachable state,  *)
(* every cell whose truth is absent has an absent guess.                   *)
C7_NoGuessAtBlock ==
    \A i \in DOMAIN grid : grid[i].truth = None => grid[i].guess = None

(* Every playable cell of a grid that has blocks holds a guess, and the    *)
(* cursor, editing, has a block beside it.                                 *)
C7_Witness ==
    /\ mode \in EditModes
    /\ \E i \in DOMAIN grid : grid[i].truth = None
    /\ \A i \in DOMAIN grid : grid[i].truth # None => grid[i].guess # None
    /\ \E d \in Direction :
          InGrid(Neighbour(Cursor, d)) /\ IsBlock(Neighbour(Cursor, d))

(* C8: from Pause the only successors are Select (on 'p', Enter or Esc)    *)
(* and termination (on 'q' or Ctrl+C): Pause never turns into EditAcross,  *)
(* EditDown or GameOver, every other key leaves the mode Pause, and Pause  *)
(* is entered only from Select.                                            *)
C8_PauseSuccessors ==
    [][/\ mode = "Pause" => mode' \in {"Pause", "Select"}
       /\ mode' = "Pause" => mode \in {"Pause", "Select"}
       /\ \A c \in Keys :
             UpdatePause(c) =>
                 /\ c \in {Char("p"), Char("\n"), Key("Esc")} =>
                        mode' = "Select" /\ pc' = "update"
                 /\ c \in {Char("q"), Ctrl("c")} => pc' = "exited"
                 /\ c \notin {Char("p"), Char("\n"), Key("Esc"),
                               Char("q"), Ctrl("c")} =>
                        mode' = "Pause" /\ pc' = "update"]_vars

(* C9: GameOver is terminal: once the mode is GameOver it never changes,   *)
(* no key event changes the cursor or a guess, and the next key event of   *)
(* any kind ends the session.                                              *)
C9_GameOverIsTerminal ==
    /\ []((pc = "update" /\ mode = "GameOver") =>
             \A c \in Keys :
                 LET r == update_turn(Self, c)
                 IN  ~r.continue /\ r.game = Self)
    /\ [][mode = "GameOver" =>
              /\ mode' = "GameOver"
              /\ UNCHANGED <<cursor_x, cursor_y, grid>>
              /\ pc' = "exited"]_vars

(* A key event has ended a session that was in GameOver over a grid with   *)
(* playable cells.                                                         *)
C9_Witness ==
    /\ mode = "GameOver"
    /\ pc = "exited"
    /\ \E i \in DOMAIN grid : grid[i].truth # None

(* C10: in every reachable state the solved test (errors = 0 and cells =   *)
(* guesses; cells the number of non-block cells, guesses the number of     *)
(* cells with a guess, errors the number of cells whose guess is present   *)
(* and differs from truth) is true exactly when every non-block cell has a *)
(* guess equal to its truth.                                               *)
C10_SolvedTestIsFullyCorrect ==
    LET status == get_status(Self)
    IN  /\ status.cells =
             Cardinality({i \in DOMAIN grid : grid[i].truth # None})
        /\ status.guesses =
             Cardinality({i \in DOMAIN grid : grid[i].guess # None})
        /\ status.errors =
             Cardinality({i \in DOMAIN grid :
                            grid[i].guess # None /\ grid[i].guess # grid[i].truth})
        /\ is_game_over(Self) <=> FullyCorrect

(* Every playable cell holds a guess, one of them wrong, one right.        *)
C10_Witness ==
    /\ \A i \in DOMAIN grid : grid[i].truth # None => grid[i].guess # None
    /\ \E i \in DOMAIN grid :
          grid[i].truth # None /\ grid[i].guess # grid[i].truth
    /\ \E i \in DOMAIN grid :
          grid[i].truth # None /\ grid[i].guess = grid[i].truth

(* C11: in an edit mode Delete clears the guess of the cell under the      *)
(* cursor and leaves the cursor, the mode, last_edit_mode and every other  *)
(* cell's guess unchanged.                                                 *)
C11_DeleteClearsGuessOnly ==
    (pc = "update" /\ mode \in EditModes) =>
        LET r == update_edit(Self, Key("Delete"))
            here == cursor_y * width + cursor_x + 1
        IN  /\ r.continue
            /\ r.game.grid[here].guess = None
            /\ r.game.grid[here].truth = grid[here].truth
            /\ DOMAIN r.game.grid = DOMAIN grid
            /\ \A i \in DOMAIN grid : i # here => r.game.grid[i] = grid[i]
            /\ CursorOf(r.game) = Cursor
            /\ r.game.mode = mode
            /\ r.game.last_edit_mode = last_edit_mode

(* Right after Delete: the last key changed a guess, yet neither the cell  *)
(* under the cursor nor the cell one step back from it holds one, which no *)
(* character entry leaves behind; another cell keeps its guess.            *)
C11_Witness ==
    LET back == EditStep(Cursor, IF mode = "EditAcross" THEN "Left" ELSE "Up")
    IN  /\ trigger
        /\ mode \in EditModes
        /\ CellAt(Cursor).guess = None
        /\ back # Cursor
        /\ CellAt(back).guess = None
        /\ \E i \in DOMAIN grid : grid[i].guess # None

(* C12: in an edit mode Backspace moves the cursor one step against the    *)
(* edit direction (left for EditAcross, up for EditDown) under the         *)
(* non-wrapping, block-stopping rule and changes no cell's guess.          *)
C12_BackspaceStepsBack ==
    (pc = "update" /\ mode \in EditModes) =>
        LET r == update_edit(Self, Key("Backspace"))
            d == IF mode = "EditAcross" THEN "Left" ELSE "Up"
        IN  /\ r.continue
            /\ CursorOf(r.game) = EditStep(Cursor, d)
            /\ r.game.grid = grid
            /\ r.game.mode = mode

(* Editing down on a cell with a guess, the cell above holding a guess     *)
(* too: Backspace moves there.                                             *)
C12_Witness ==
    /\ pc = "update"
    /\ mode = "EditDown"
    /\ CellAt(Cursor).guess # None
    /\ EditStep(Cursor, "Up") # Cursor
    /\ CellAt(EditStep(Cursor, "Up")).guess # None

(* C13: in EditAcross or EditDown Space swaps the mode for the other edit  *)
(* mode whatever clues the cell under the cursor has, sets last_edit_mode  *)
(* to the new mode and leaves the cursor and every guess unchanged;        *)
(* toggling twice restores the original mode.                              *)
C13_SpaceTogglesDirection ==
    (pc = "update" /\ mode \in EditModes) =>
        LET once == update_edit(Self, Char(" "))
            twice == update_edit(once.game, Char(" "))
        IN  /\ once.continue
            /\ once.game.mode \in EditModes \ {mode}
            /\ once.game.last_edit_mode = once.game.mode
            /\ CursorOf(once.game) = Cursor
            /\ once.game.grid = grid
            /\ twice.game.mode = mode
            /\ twice.game.last_edit_mode = mode

(* Editing down on a cell whose only clue is an across clue: the mode was  *)
(* toggled against the clue.                                               *)
C13_Witness ==
    /\ pc = "update"
    /\ mode = "EditDown"
    /\ last_edit_mode = "EditDown"
    /\ CellAt(Cursor).clue_across # None
    /\ CellAt(Cursor).clue_down = None

(* The cells of the Game g, as pairs <<x, y>>. *)
Cells(g) == (0..(g.width - 1)) \X (0..(g.height - 1))

(* <<x, y>> is on the grid of g and its cell is not a block. *)
Playable(g, x, y) ==
    /\ x \in 0..(g.width - 1)
    /\ y \in 0..(g.height - 1)
    /\ g.grid[y * g.width + x + 1].truth # None

StartsAcross(g, x, y) ==
    Playable(g, x, y) /\ ~Playable(g, x - 1, y) /\ Playable(g, x + 1, y)

StartsDown(g, x, y) ==
    Playable(g, x, y) /\ ~Playable(g, x, y - 1) /\ Playable(g, x, y + 1)

(* The decoded file has one puzzle char for every cell. *)
FullGrid == Len(puzfile.puzzle) = puzfile.width * puzfile.height

(* The Game that the entry-start tests are applied to: the one init has    *)
(* built before its numbering loop, and the one in play.                   *)
GamesHere ==
    IF pc = "init" /\ FullGrid THEN {NewGame(puzfile)}
    ELSE IF pc = "update" THEN {Self}
    ELSE {}

(* C14: for every grid and every cell, the cell starts an across entry iff *)
(* it is non-block, its left neighbour is off-grid or a block, and its     *)
(* right neighbour exists and is non-block; it starts a down entry iff it  *)
(* is non-block, its top neighbour is off-grid or a block, and its bottom  *)
(* neighbour exists and is non-block.  The single cell of a 1x1 grid       *)
(* starts neither.                                                         *)
C14_EntryStarts ==
    \A g \in GamesHere :
        /\ \A t \in Cells(g) :
              /\ has_clue_across(g, t[1], t[2]) <=> StartsAcross(g, t[1], t[2])
              /\ has_clue_down(g, t[1], t[2]) <=> StartsDown(g, t[1], t[2])
        /\ (g.width = 1 /\ g.height = 1) =>
              ~has_clue_across(g, 0, 0) /\ ~has_clue_down(g, 0, 0)

(* A numbered grid with an across entry that starts behind a block, a     *)
(* cell that starts a down entry only, and a playable cell in the last     *)
(* column with a block to its left, which starts no across entry.          *)
C14_Witness ==
    /\ pc = "update"
    /\ \E t \in Cells(Self) : t[1] > 0 /\ CellAt(t).clue_across # None
    /\ \E t \in Cells(Self) :
          CellAt(t).clue_down # None /\ CellAt(t).clue_across = None
    /\ \E t \in Cells(Self) :
          /\ t[1] = width - 1
          /\ t[1] > 0
          /\ ~IsBlock(t)
          /\ IsBlock(<<t[1] - 1, t[2]>>)
          /\ CellAt(t).clue_across = None

(* The cells before cell i (1-based, row-major) that carry a clue number.  *)
NumberedBefore(i) == {j \in 1..(i - 1) : grid[j].clue_number # None}

(* C15: after clue numbering a cell has a clue number iff it starts an     *)
(* across or a down entry, and the numbers read in row-major order are     *)
(* exactly 1..k without gap or repeat; a cell that starts both an across   *)
(* and a down entry carries one number.                                    *)
C15_NumbersFollowStarts ==
    pc = "update" =>
        /\ \A t \in Cells(Self) :
              CellAt(t).clue_number # None <=>
                  StartsAcross(Self, t[1], t[2]) \/ StartsDown(Self, t[1], t[2])
        /\ \A i \in DOMAIN grid :
              grid[i].clue_number # None =>
                  grid[i].clue_number = Some(Cardinality(NumberedBefore(i)) + 1)

(* A numbered grid whose first cell starts both an across and a down       *)
(* entry, with a cell that starts nothing and a later cell numbered 3.     *)
C15_Witness ==
    /\ pc = "update"
    /\ grid[1].clue_across # None
    /\ grid[1].clue_down # None
    /\ \E i \in DOMAIN grid : \E j \in DOMAIN grid :
          /\ i < j
          /\ grid[i].truth # None
          /\ grid[i].clue_number = None
          /\ grid[j].clue_number = Some(3)

(* The clue-list entries attached to cells. *)
Attached ==
    Cardinality({i \in DOMAIN grid : grid[i].clue_across # None})
        + Cardinality({i \in DOMAIN grid : grid[i].clue_down # None})

(* C16: for all grids the number of clue-list entries consumed by clue     *)
(* numbering (across starts plus down starts) equals num_clues exactly:    *)
(* numbering neither runs past the end of the clue list (init does not     *)
(* panic on a grid with a puzzle char for every cell) nor leaves entries   *)
(* unconsumed.                                                             *)
C16_ConsumedEqualsNumClues ==
    /\ pc = "panicked" => ~FullGrid
    /\ pc = "update" => Attached = puzfile.num_clues

(* The decoded file is the one of tests::small. *)
IsSmall ==
    /\ puzfile.width = 3
    /\ puzfile.height = 3
    /\ puzfile.puzzle = <<"P", "U", "Z", "O", ".", "O", "P", "O", "O">>
    /\ puzfile.num_clues = 4

(* The number of cells that carry a clue number. *)
NumberedCells == Cardinality({i \in DOMAIN grid : grid[i].clue_number # None})

(* C17 as stated: for the 3x3 grid PUZ / O.O / POO with num_clues = 4,     *)
(* numbering yields four clue-number assignments: cell (0,0) gets number 1 *)
(* and starts both across and down, cell (2,0) gets number 2 and starts    *)
(* down only, and cell (0,1) gets number 3.                                *)
C17_SmallNumberingAsStated ==
    (pc = "update" /\ IsSmall) =>
        /\ NumberedCells = 4
        /\ CellAt(<<0, 0>>).clue_number = Some(1)
        /\ CellAt(<<0, 0>>).clue_across # None
        /\ CellAt(<<0, 0>>).clue_down # None
        /\ CellAt(<<2, 0>>).clue_number = Some(2)
        /\ CellAt(<<2, 0>>).clue_across = None
        /\ CellAt(<<2, 0>>).clue_down # None
        /\ CellAt(<<0, 1>>).clue_number = Some(3)

(* C17, amended: for that grid and num_clues = 4 numbering completes and   *)
(* yields three numbered cells that take up all four clue-list entries:    *)
(* cell (0,0) gets number 1 and starts both across and down, cell (2,0)    *)
(* gets number 2 and starts down only, and cell (0,2) gets number 3 and    *)
(* starts across only; cell (0,1) starts nothing and gets no number.       *)
C17_SmallNumbering ==
    /\ (pc = "init" /\ IsSmall) => ~init(puzfile).panicked
    /\ (pc = "update" /\ IsSmall) =>
        /\ NumberedCells = 3
        /\ Attached = 4
        /\ CellAt(<<0, 0>>).clue_number = Some(1)
        /\ CellAt(<<0, 0>>).clue_across # None
        /\ CellAt(<<0, 0>>).clue_down # None
        /\ CellAt(<<2, 0>>).clue_number = Some(2)
        /\ CellAt(<<2, 0>>).clue_across = None
        /\ CellAt(<<2, 0>>).clue_down # None
        /\ CellAt(<<0, 2>>).clue_number = Some(3)
        /\ CellAt(<<0, 2>>).clue_across # None
        /\ CellAt(<<0, 2>>).clue_down = None
        /\ CellAt(<<0, 1>>).clue_number = None

(* init has numbered the grid of tests::small. *)
C17_Witness == pc = "update" /\ IsSmall

(* The place of the width byte in the buffer that p was decoded from:     *)
(* behind the preamble, the checksum, the magic and its zero byte, and the *)
(* thirty bytes of the fields from cib_checksum to reserved_2.             *)
WidthAt(p) == Len(p.preamble) + 2 + Len(p.magic) + 1 + 30 + 1

(* C18: every successful decode returns a file with len(puzzle) =          *)
(* len(state) = width * height and len(clues) = num_clues, the width read  *)
(* before the height; and if the buffer ends before the two grids, the     *)
(* three text fields, all num_clues clues or the notes are complete (a     *)
(* text field with no zero byte behind it included), decode fails: no      *)
(* buffer cut short of the last byte that a successful decode has read     *)
(* decodes.                                                                *)
C18_DecodedLengths ==
    /\ pc = "init" =>
          /\ Len(puzfile.puzzle) = puzfile.width * puzfile.height
          /\ Len(puzfile.state) = puzfile.width * puzfile.height
          /\ Len(puzfile.clues) = puzfile.num_clues
          /\ puzfile.width = data[WidthAt(puzfile)]
          /\ puzfile.height = data[WidthAt(puzfile) + 1]
    /\ (pc = "main" /\ parse_all(data).ok) =>
          \A n \in 0..(Len(data) - Len(parse_all(data).rest) - 1) :
              ~parse_all(SubSeq(data, 1, n)).ok

(* Two bytes of b, k bytes from its start, are followed by the literal.    *)
HeaderAt(b, k) ==
    /\ k + 2 + Len(ACROSS_DOWN) <= Len(b)
    /\ SubSeq(b, k + 3, k + 2 + Len(ACROSS_DOWN)) = ACROSS_DOWN

(* C19: the decoder locates the first position at which two bytes are      *)
(* followed by the literal ACROSS&DOWN: the bytes before those two are the *)
(* preamble (empty at position 0), the two bytes are the little-endian     *)
(* checksum, and the other fields decode as they do for the buffer without *)
(* the preamble.  If there is no such position, decode fails.              *)
C19_PreambleAndChecksum ==
    pc = "main" =>
        LET r == parse_all(data)
            found == {k \in 0..Len(data) : HeaderAt(data, k)}
            first == CHOOSE k \in found : \A j \in found : k <= j
            bare == parse_all(SubSeq(data, first + 1, Len(data)))
        IN  IF found = {} THEN ~r.ok
            ELSE /\ r.ok <=> bare.ok
                 /\ r.ok =>
                       /\ r.out.preamble = SubSeq(data, 1, first)
                       /\ r.out.checksum =
                              data[first + 1] + 256 * data[first + 2]
                       /\ bare.out.preamble = <<>>
                       /\ [r.out EXCEPT !.preamble = <<>>] = bare.out
                       /\ r.rest = bare.rest

(* A file has been decoded whose preamble ends with the literal: the       *)
(* literal with a single byte before it was passed over.                   *)
C19_Witness ==
    /\ pc = "init"
    /\ puzfile.preamble = <<55>> \o ACROSS_DOWN
    /\ puzfile.checksum = 49 + 256 * 50
    /\ puzfile.width = 2
    /\ puzfile.height = 3

(* C20: building the grid from a decoded file creates exactly              *)
(* width * height cells in row-major order, one for every grid position;   *)
(* cell i has no truth iff the i-th puzzle char is '.', and otherwise the  *)
(* truth is that char; every guess is absent whatever the state field of   *)
(* the file holds; and the session starts in Select.                       *)
C20_GridFromFile ==
    /\ pc = "init" =>
          LET g == NewGame(puzfile)
          IN  /\ Len(g.grid) = puzfile.width * puzfile.height
              /\ \A i \in DOMAIN g.grid :
                    /\ g.grid[i].truth = None <=> puzfile.puzzle[i] = "."
                    /\ puzfile.puzzle[i] # "." =>
                           g.grid[i].truth = Some(puzfile.puzzle[i])
                    /\ g.grid[i].guess = None
    /\ pc = "update" =>
          /\ Len(grid) = width * height
          /\ \A i \in DOMAIN grid : grid[i].guess = None
          /\ mode = "Select"


(* C21: in every reachable state of a session, whatever keys were pressed  *)
(* in whatever modes, the cursor is inside the grid:                       *)
(* 0 <= cursor_x < width and 0 <= cursor_y < height; and the Game after    *)
(* one more key of any kind has its cursor inside the grid too.            *)
C21_CursorInGrid ==
    /\ InGrid(Cursor)
    /\ pc = "update" =>
          \A c \in Keys :
              LET g == update_turn(Self, c).game
              IN  /\ g.cursor_x \in 0..(g.width - 1)
                  /\ g.cursor_y \in 0..(g.height - 1)

(* The cursor is in the last row of a grid that has more than two rows,    *)
(* away from where init put it, in an edit mode, with a guess stored in    *)
(* another cell.                                                           *)
C21_Witness ==
    /\ pc = "update"
    /\ mode \in EditModes
    /\ height > 2
    /\ cursor_y = height - 1
    /\ \E i \in DOMAIN grid :
          i # cursor_y * width + cursor_x + 1 /\ grid[i].guess # None


(* The across and down entry starts among the cells before cell i          *)
(* (1-based, row-major).                                                   *)
StartsBefore(i) ==
    Cardinality({j \in 1..(i - 1) :
                    StartsAcross(Self, (j - 1) % width, (j - 1) \div width)})
        + Cardinality({j \in 1..(i - 1) :
                    StartsDown(Self, (j - 1) % width, (j - 1) \div width)})

(* C22: clue texts are attached in file order.  With the entry starts      *)
(* listed in row-major cell order, the across start of a cell before its   *)
(* down start, the j-th start (j counted from 0) holds the j-th element of *)
(* the decoded clues; a cell that starts both holds clues[j] as its across *)
(* clue and clues[j+1] as its down clue; a cell holds no clue for an entry *)
(* it does not start.                                                      *)
C22_CluesInFileOrder ==
    pc = "update" =>
        \A i \in DOMAIN grid :
            LET x == (i - 1) % width
                y == (i - 1) \div width
                j == StartsBefore(i)
                across == StartsAcross(Self, x, y)
                jdown == IF across THEN j + 1 ELSE j
            IN  /\ grid[i].clue_across =
                      IF across THEN Some(puzfile.clues[j + 1]) ELSE None
                /\ grid[i].clue_down =
                      IF StartsDown(Self, x, y)
                      THEN Some(puzfile.clues[jdown + 1]) ELSE None

(* A numbered grid with a cell that starts both an across and a down entry *)
(* after another entry start: it holds the second and the third clue of    *)
(* the file, which differ.                                                 *)
C22_Witness ==
    /\ pc = "update"
    /\ Len(puzfile.clues) >= 3
    /\ puzfile.clues[2] # puzfile.clues[3]
    /\ \E i \in DOMAIN grid :
          /\ grid[i].clue_across = Some(puzfile.clues[2])
          /\ grid[i].clue_down = Some(puzfile.clues[3])


(* Game g keeps the grid of the current state but for guesses: the same    *)
(* width and height, the same cells, and in every cell the same truth,     *)
(* clue_number, clue_across and clue_down.                                 *)
SameButGuesses(g) ==
    /\ g.width = width
    /\ g.height = height
    /\ DOMAIN g.grid = DOMAIN grid
    /\ \A i \in DOMAIN grid :
          /\ g.grid[i].truth = grid[i].truth
          /\ g.grid[i].clue_number = grid[i].clue_number
          /\ g.grid[i].clue_across = grid[i].clue_across
          /\ g.grid[i].clue_down = grid[i].clue_down

(* The cells of g whose guess is not the guess of the current state. *)
GuessChanges(g) == {i \in DOMAIN grid : g.grid[i].guess # grid[i].guess}

(* C23: after load no key event changes the width or the height of the     *)
(* grid or any cell's truth, clue_number, clue_across or clue_down; the    *)
(* only cell field that changes is guess, only in the cell under the       *)
(* cursor, and only by a character key or Delete while the mode is         *)
(* EditAcross or EditDown.  This holds for every key in every reachable    *)
(* state, and for every step of the session.                               *)
C23_OnlyGuessUnderCursorChanges ==
    /\ [](pc = "update" =>
             \A c \in Keys :
                 LET g == update_turn(Self, c).game
                 IN  /\ SameButGuesses(g)
                     /\ GuessChanges(g) # {} =>
                           /\ GuessChanges(g) = {cursor_y * width + cursor_x + 1}
                           /\ mode \in EditModes
                           /\ IsGuessKey(c))
    /\ [][/\ width' = width
          /\ height' = height
          /\ DOMAIN grid' = DOMAIN grid
          /\ \A i \in DOMAIN grid :
                /\ grid'[i].truth = grid[i].truth
                /\ grid'[i].clue_number = grid[i].clue_number
                /\ grid'[i].clue_across = grid[i].clue_across
                /\ grid'[i].clue_down = grid[i].clue_down
                /\ grid'[i].guess # grid[i].guess =>
                      /\ i = cursor_y * width + cursor_x + 1
                      /\ pc = "update"
                      /\ mode \in EditModes
                      /\ trigger']_vars

(* Back in Select with the cursor on a cell without a guess, while two     *)
(* other cells hold different guesses, entered earlier in an edit mode.    *)
C23_Witness ==
    /\ pc = "update"
    /\ mode = "Select"
    /\ CellAt(Cursor).guess = None
    /\ \E i \in DOMAIN grid : \E j \in DOMAIN grid :
          /\ grid[i].guess # None
          /\ grid[j].guess # None
          /\ grid[i].guess # grid[j].guess


(* C24: whenever the mode is EditAcross or EditDown the cell under the     *)
(* cursor is a non-block cell of the grid, in every reachable state; and   *)
(* no key pressed in any reachable state leaves the Game in an edit mode   *)
(* with the cursor on a block.                                             *)
C24_EditCursorOnNonBlock ==
    /\ mode \in EditModes => InGrid(Cursor) /\ ~IsBlock(Cursor)
    /\ pc = "update" =>
          \A c \in Keys :
              LET g == update_turn(Self, c).game
              IN  g.mode \in EditModes => Playable(g, g.cursor_x, g.cursor_y)

(* In EditAcross, not right after a guess key, with a guess under the      *)
(* cursor and a block of the grid directly to its left.                    *)
C24_Witness ==
    /\ pc = "update"
    /\ mode = "EditAcross"
    /\ ~trigger
    /\ CellAt(Cursor).guess # None
    /\ InGrid(Neighbour(Cursor, "Left"))
    /\ IsBlock(Neighbour(Cursor, "Left"))


(* C25: whenever the mode is GameOver the grid is fully correct: every     *)
(* non-block cell has a guess equal to its truth.  GameOver is never       *)
(* entered and never persists with a missing or a wrong guess: the grid is *)
(* fully correct in every reachable GameOver state, and in the Game after  *)
(* any key whose mode is GameOver.                                         *)
C25_GameOverIsFullyCorrect ==
    /\ mode = "GameOver" => FullyCorrect
    /\ pc = "update" =>
          \A c \in Keys :
              LET g == update_turn(Self, c).game
              IN  g.mode = "GameOver" =>
                      \A i \in DOMAIN g.grid :
                          g.grid[i].truth # None =>
                              g.grid[i].guess = g.grid[i].truth

(* GameOver, still waiting for the key that ends the session, on a grid    *)
(* with at least three non-block cells, with the error hint switched on.   *)
C25_Witness ==
    /\ mode = "GameOver"
    /\ pc = "update"
    /\ hint_num_errors
    /\ Cardinality({i \in DOMAIN grid : grid[i].truth # None}) >= 3


(* C26: the session terminates only from Pause, on 'q' or Ctrl+C, or from  *)
(* GameOver, on any key.  No key received in Select, EditAcross or         *)
(* EditDown ends the session: in Select 'q', 'p', Esc and Ctrl+C enter     *)
(* Pause; in the edit modes Ctrl+C is ignored and Esc and Enter return to  *)
(* Select.  Keys queued after the terminating key are not applied: a       *)
(* session that has ended takes no further step.                           *)
C26_TerminatesFromPauseOrGameOver ==
    /\ [](pc = "update" =>
             \A c \in Keys :
                 LET r == update_turn(Self, c)
                 IN  /\ ~r.continue <=>
                            \/ mode = "Pause" /\ c \in {Char("q"), Ctrl("c")}
                            \/ mode = "GameOver"
                     /\ (mode = "Select" /\
                         c \in {Char("q"), Char("p"), Key("Esc"), Ctrl("c")}) =>
                            r.game.mode = "Pause"
                     /\ (mode \in EditModes /\ c = Ctrl("c")) => r.game = Self
                     /\ (mode \in EditModes /\ c \in {Key("Esc"), Char("\n")}) =>
                            r.game.mode = "Select")
    /\ [][/\ pc # "exited"
          /\ pc' = "exited" =>
                /\ mode \in {"Pause", "GameOver"}
                /\ mode' = mode
                /\ grid' = grid
                /\ Cursor' = Cursor]_vars

(* A session that was ended from Pause, with a guess in the grid and the   *)
(* cursor away from the first cell.                                        *)
C26_Witness ==
    /\ pc = "exited"
    /\ mode = "Pause"
    /\ Cursor # <<0, 0>>
    /\ \E i \in DOMAIN grid : grid[i].guess # None


(* The first characters of the uppercase forms of the alphanumeric         *)
(* characters: the uppercase letters and the digits.                       *)
UpperForms == Range(UpperLetters) \cup Digits

(* Some non-block cell has a truth that no uppercase form starts with. *)
UnmatchableTruth ==
    \E i \in DOMAIN grid :
        grid[i].truth # None /\ grid[i].truth[1] \notin UpperForms

(* C27: every stored guess is the first character of the uppercase form of *)
(* an alphanumeric key, and every truth is the char of the decoded file,   *)
(* unchanged; so when some non-block cell's truth is not such a character  *)
(* (a lowercase letter, a punctuation mark) the solved test fails in every *)
(* reachable state and no sequence of keys reaches GameOver.               *)
C27_GuessesAreUpperForms ==
    /\ \A i \in DOMAIN grid :
          /\ grid[i].guess # None =>
                /\ grid[i].guess[1] \in UpperForms
                /\ \E k \in Keys :
                      /\ k[1] = "Char"
                      /\ is_alphanumeric(k[2])
                      /\ grid[i].guess = Some(to_uppercase(k[2])[1])
          /\ grid[i].truth =
                IF puzfile.puzzle[i] = "." THEN None ELSE Some(puzfile.puzzle[i])
    /\ UnmatchableTruth => mode # "GameOver" /\ ~is_game_over(Self)
    /\ pc = "update" =>
          \A c \in Keys :
              LET g == update_turn(Self, c).game
              IN  \A i \in DOMAIN g.grid :
                      g.grid[i].guess # None => g.grid[i].guess[1] \in UpperForms

(* The grid with the lowercase truth 'a', a polling cycle after the guess  *)
(* keys: every cell holds a guess, the cell of 'a' holds 'A', the other    *)
(* cells are right, and the mode is not GameOver.                          *)
C27_Witness ==
    /\ pc = "update"
    /\ ~trigger
    /\ mode = "Select"
    /\ \E i \in DOMAIN grid :
          /\ grid[i].truth = Some("a")
          /\ grid[i].guess = Some("A")
          /\ \A j \in DOMAIN grid \ {i} :
                grid[j].truth # None /\ grid[j].guess = grid[j].truth

====
